---- MODULE Spec2Model ----
(***************************************************************************)
(* Response-side query execution core of go-graphsync.                     *)
(*                                                                         *)
(* The serializer (ResponseManager.run and the message handlers) is        *)
(* modelled from src/responsemanager/responsemanager.go, the worker        *)
(* (queryExecutor) from src/unnamed/part_001.  The task queue, the         *)
(* traversal driver, the per-peer sender and the signal mailboxes are      *)
(* collaborators whose code is not part of the sources; they are modelled  *)
(* from the specification of the repository.                               *)
(***************************************************************************)
EXTENDS Integers, Sequences, FiniteSets, TLC

(***************************************************************************)
(* Bounds of the model.                                                    *)
(***************************************************************************)
NumWorkers == 2     \* size of the worker pool
NumBlocks == 2      \* blocks a traversal yields before it is complete
MessagesCap == 2    \* capacity of the serializer's messages channel
MaxEvents == 2      \* control events the environment issues in one run
MaxBatch == 1       \* requests in one processRequests call

Peers == {"p1", "p2"}
RequestIDs == {1}
Keys == [p : Peers, requestID : RequestIDs]
NoKey == [p |-> "-", requestID |-> 0]
Workers == 1..NumWorkers

MaxInt32 == 2147483647

(***************************************************************************)
(* Errors.  An error is named by its message; isContextErr looks for the   *)
(* message of ipldutil.ContextCancelError inside it, as the code does.     *)
(***************************************************************************)
Nil == "nil"
ErrPaused == "ErrPaused"
ContextCancelError == "ContextCancelError"
errCancelledByCommand == "errCancelledByCommand"
errNotValid == "errNotValid"
errShutdown == "errShutdown"
errHook == "errHook"
errDecode == "errDecode"
errTraversal == "errTraversal"

ErrorText(err) ==
    CASE err = ContextCancelError ->
           <<"C","o","n","t","e","x","t"," ","c","a","n","c","e","l","l","e","d">>
      [] err = errShutdown ->
           <<"c","o","n","t","e","x","t"," ","c","a","n","c","e","l","l","e","d">>
      [] err = errCancelledByCommand ->
           <<"r","e","s","p","o","n","s","e"," ","c","a","n","c","e","l","l","e","d"," ",
             "b","y"," ","r","e","s","p","o","n","d","e","r">>
      [] err = errNotValid ->
           <<"r","e","q","u","e","s","t"," ","n","o","t"," ","v","a","l","i","d">>
      [] err = ErrPaused -> <<"r","e","q","u","e","s","t"," ","p","a","u","s","e","d">>
      [] err = errHook -> <<"h","o","o","k"," ","f","a","i","l","e","d">>
      [] err = errDecode -> <<"d","e","c","o","d","e"," ","f","a","i","l","e","d">>
      [] err = errTraversal -> <<"b","l","o","c","k"," ","m","i","s","s","i","n","g">>
      [] OTHER -> <<>>

Contains(s, sub) ==
    \E i \in 0..(Len(s) - Len(sub)) : SubSeq(s, i + 1, i + Len(sub)) = sub

\* mutant: any error that says "cancelled" counts as a context cancellation
isContextErrLoose(err) ==
    Contains(ErrorText(err), <<"c","a","n","c","e","l","l","e","d">>)

isContextErr(err) == Contains(ErrorText(err), ErrorText(ContextCancelError))

(***************************************************************************)
(* State.                                                                  *)
(***************************************************************************)
VARIABLES
    rmDone,               \* rm.ctx is cancelled (Shutdown was called)
    runExited,            \* ResponseManager.run has returned
    messages,             \* rm.messages, the bounded channel
    workSignal,           \* rm.workSignal, capacity 1
    inProgressResponses,  \* the table: a function on the keys present
    contexts,             \* per-request contexts: contexts[i] = cancelFn was called
    traversers,           \* traversers built so far: [pos, ctx]
    signals,              \* per key: the stop, pause and update mailboxes
    queryQueue,           \* the task queue: [tasks, frozen, order]
    worker,               \* per worker: position in processQueriesWorker and locals
    sent,                 \* per key: the calls made on the peer's sender
    completedListeners,   \* per key: statuses passed to NotifyCompletedListeners
    cancelledListeners,   \* per key: number of NotifyCancelledListeners calls
    unpauseReply,         \* per key: what the last UnpauseResponse returned
    syncCaller,           \* the caller of synchronize(): [pc, after]
    submitted,            \* keys already sent as a new request
    events,               \* control events issued so far
    hist                  \* per key: observations the properties refer to

vars == <<rmDone, runExited, messages, workSignal, inProgressResponses, contexts,
          traversers, signals, queryQueue, worker, sent, completedListeners,
          cancelledListeners, unpauseReply, syncCaller, submitted, events, hist>>

serializerVars == <<workSignal, inProgressResponses, contexts, queryQueue>>
outputVars == <<sent, completedListeners, cancelledListeners>>

(***************************************************************************)
(* The task queue (go-peertaskqueue), modelled from section 4.1.            *)
(***************************************************************************)
Task(key, priority) == [topic |-> key, priority |-> priority, work |-> 1]

PushTasks(q, p, task) == [q EXCEPT !.tasks[p] = Append(@, task)]

Remove(q, topic, p) ==
    [q EXCEPT !.tasks[p] = SelectSeq(@, LAMBDA t : t.topic # topic)]

TasksDone(q, p) == [q EXCEPT !.frozen = @ \cup {p}]

ThawRound(q) == [q EXCEPT !.frozen = {}]

RemoveAt(s, i) == SubSeq(s, 1, i - 1) \o SubSeq(s, i + 1, Len(s))

\* index of the task popped first: highest priority, oldest among equals
BestTask(ts) ==
    CHOOSE i \in 1..Len(ts) :
        \A j \in 1..Len(ts) :
            \/ ts[j].priority < ts[i].priority
            \/ ts[j].priority = ts[i].priority /\ i <= j

PopTasks(q) ==
    LET cand == {i \in 1..Len(q.order) :
                    /\ q.order[i] \notin q.frozen
                    /\ q.tasks[q.order[i]] # <<>>}
    IN IF cand = {}
       THEN [found |-> FALSE, peer |-> "-", task |-> Task(NoKey, 0), q |-> q]
       ELSE LET i == CHOOSE x \in cand : \A y \in cand : x <= y
                p == q.order[i]
                j == BestTask(q.tasks[p])
            IN [found |-> TRUE,
                peer  |-> p,
                task  |-> q.tasks[p][j],
                q     |-> [q EXCEPT !.tasks[p] = RemoveAt(@, j),
                                    !.order = Append(RemoveAt(@, i), p)]]

Pending(key) == \E i \in 1..Len(queryQueue.tasks[key.p]) :
                    queryQueue.tasks[key.p][i].topic = key

(***************************************************************************)
(* Contexts.  A per-request context is a child of rm.ctx.                   *)
(***************************************************************************)
CtxDone(c) == rmDone \/ contexts[c]

Cancel(ctxs, c) == [ctxs EXCEPT ![c] = TRUE]

(***************************************************************************)
(* Messages on rm.messages.                                                *)
(***************************************************************************)
Msg(type, key, w, requests, traverser, status, err) ==
    [type |-> type, key |-> key, w |-> w, requests |-> requests,
     traverser |-> traverser, status |-> status, err |-> err]

Request(id, isCancel, isUpdate, priority) ==
    [id |-> id, isCancel |-> isCancel, isUpdate |-> isUpdate, priority |-> priority]

HasRoom == Len(messages) < MessagesCap

(***************************************************************************)
(* Calls on the peer's sender, recorded in order.                          *)
(***************************************************************************)
Call(name, link, size, code) ==
    [call |-> name, link |-> link, size |-> size, code |-> code]

SendExtensionData == Call("SendExtensionData", 0, 0, "-")
PauseRequest == Call("PauseRequest", 0, 0, "-")
FinishRequest(status) == Call("FinishRequest", 0, 0, status)
FinishWithError(code) == Call("FinishWithError", 0, 0, code)
FinishWithCancel == Call("FinishWithCancel", 0, 0, "-")
SendResponse(link, size) == Call("SendResponse", link, size, "-")

Extensions(n) == [i \in 1..n |-> SendExtensionData]

IsTerminal(c) == c.call \in {"FinishRequest", "FinishWithError", "FinishWithCancel"}

TerminalCount(key) == Len(SelectSeq(sent[key], IsTerminal))

Blocks(key) == SelectSeq(sent[key], LAMBDA c : c.call = "SendResponse")

(***************************************************************************)
(* Initial state: the state after New and Startup.                         *)
(***************************************************************************)
IdleWorker ==
    [pc |-> "pop", key |-> NoKey, peer |-> "-", ctx |-> 0, traverser |-> 0,
     empty |-> FALSE, prepPaused |-> FALSE, link |-> 0, err |-> Nil, status |-> "-",
     updates |-> <<>>, sawPause |-> FALSE]

\* reqHooks: runs of the request hooks; cancelAt: where the response was when the
\* first cancel for it was handled; blocksAtCancel: block records sent by then;
\* ctxAtCancel: the context of the entry then; afterCancel: how the first task
\* ended after it; cancelCtx: the context of the entry when a cancel for it was
\* delivered; hookPause: the block at which a
\* block hook last returned pause; rejected: the request hooks returned an error
\* or did not validate the request; yields: pairs the traverser
\* yielded; pollEnded: the poll of the signals ended the traversal with an error
\* other than ErrPaused; updRun: the updates the update hooks ran on, in the
\* order of the runs, each with the error the hooks returned; blockHooks: the
\* links the block hooks ran on, in the order of the runs, each with the error
\* the hooks returned; cancelCalls: calls the serializer made of the cancelFn of
\* the entry
NoHist == [reqHooks |-> 0, cancelAt |-> "-", blocksAtCancel |-> 0, afterCancel |-> "-",
           ctxAtCancel |-> 0, cancelCtx |-> 0, hookPause |-> 0, rejected |-> FALSE,
           yields |-> 0, pollEnded |-> FALSE, updRun |-> <<>>, blockHooks |-> <<>>,
           cancelCalls |-> 0]

Init ==
    /\ rmDone = FALSE
    /\ runExited = FALSE
    /\ messages = <<>>
    /\ workSignal = FALSE
    /\ inProgressResponses = [k \in {} |-> 0]
    /\ contexts = <<>>
    /\ traversers = <<>>
    /\ signals = [k \in Keys |-> [stop |-> "-", pause |-> FALSE, update |-> FALSE,
                                  updates |-> <<>>]]
    /\ queryQueue = [tasks |-> [p \in Peers |-> <<>>], frozen |-> {},
                     order |-> <<"p1", "p2">>]
    /\ worker = [w \in Workers |-> IdleWorker]
    /\ sent = [k \in Keys |-> <<>>]
    /\ completedListeners = [k \in Keys |-> <<>>]
    /\ cancelledListeners = [k \in Keys |-> 0]
    /\ unpauseReply = [k \in Keys |-> "-"]
    /\ syncCaller = [pc |-> "idle", after |-> {}]
    /\ submitted = {}
    /\ events = 0
    /\ hist = [k \in Keys |-> NoHist]

(***************************************************************************)
(* The serializer: ResponseManager.run and the handlers of its messages.   *)
(* A handler works on the record S of the state it may touch.              *)
(***************************************************************************)
SerializerState ==
    [table |-> inProgressResponses, contexts |-> contexts, queue |-> queryQueue,
     workSignal |-> workSignal, hist |-> hist]

Put(table, key, entry) ==
    [k \in DOMAIN table \cup {key} |-> IF k = key THEN entry ELSE table[k]]

Delete(table, key) == [k \in DOMAIN table \ {key} |-> table[k]]

\* where the response of key is when a cancel for it is handled
Position(S, key) ==
    IF key \notin DOMAIN S.table THEN "absent"
    ELSE IF S.table[key].isPaused THEN "paused"
    ELSE IF \E i \in 1..Len(S.queue.tasks[key.p]) : S.queue.tasks[key.p][i].topic = key
         THEN "queued"
    ELSE IF \E w \in Workers : worker[w].key = key
         THEN LET w == CHOOSE x \in Workers : worker[x].key = key
              IN CASE worker[w].pc = "run" -> "advance"
                   [] worker[w].pc \in {"poll", "updReq", "awaitUpd", "procUpd", "send"}
                        -> "inflight"
                   [] worker[w].pc \in {"reqData", "awaitData", "execute", "setData"}
                        -> "starting"
                   [] OTHER -> "ended"
    ELSE "idle"

\* processRequestMessage.handle, the branch of a request that is not a cancel
NewRequest(S, key, request) ==
    [S EXCEPT
        !.contexts = Append(@, FALSE),
        !.table = Put(@, key, [ctx |-> Len(S.contexts) + 1, request |-> request,
                               traverser |-> 0, isPaused |-> FALSE]),
        !.queue = PushTasks(@, key.p, Task(key, request.priority)),
        !.workSignal = TRUE]

\* mutant: the cancel removes the task and leaves the context alone
CancelRequestNoCancelFn(S, key) ==
    [S EXCEPT !.queue = Remove(@, key, key.p)]

\* mutant: the entry is looked up by the request identifier alone
CancelRequestByID(S, key) ==
    [S EXCEPT !.queue = Remove(@, key, key.p),
              !.contexts = [c \in DOMAIN @ |->
                               \/ @[c]
                               \/ \E k \in DOMAIN S.table :
                                     /\ k.requestID = key.requestID
                                     /\ S.table[k].ctx = c]]

\* processRequestMessage.handle, the branch of a cancel
CancelRequest(S, key) ==
    LET T == [S EXCEPT !.queue = Remove(@, key, key.p)]
    IN IF key \in DOMAIN S.table
       THEN [T EXCEPT !.contexts = Cancel(@, S.table[key].ctx),
                      !.hist[key].cancelCalls = @ + 1]
       ELSE T

RECURSIVE HandleRequests(_, _, _)
HandleRequests(S, p, requests) ==
    IF requests = <<>> THEN S
    ELSE LET request == Head(requests)
             key == [p |-> p, requestID |-> request.id]
             T == IF ~request.isCancel
                  THEN NewRequest(S, key, request)
                  ELSE IF S.hist[key].cancelAt # "-" THEN CancelRequest(S, key)
                  ELSE [CancelRequest(S, key) EXCEPT
                           !.hist[key].cancelAt = Position(S, key),
                           !.hist[key].blocksAtCancel = Len(Blocks(key)),
                           !.hist[key].ctxAtCancel =
                               IF key \in DOMAIN S.table THEN S.table[key].ctx ELSE 0]
         IN HandleRequests(T, p, Tail(requests))

\* mutant: the message that arrived last is handled first
ArrivalNewestFirst(msgs) == Len(msgs)

\* run: message := <-rm.messages takes the message that arrived first
Arrival(msgs) == 1

NextMessage == messages[Arrival(messages)]

Receive(type) ==
    /\ ~runExited
    /\ messages # <<>>
    /\ NextMessage.type = type
    /\ messages' = RemoveAt(messages, Arrival(messages))

Handle_processRequest ==
    /\ Receive("processRequest")
    /\ LET m == NextMessage
           S == HandleRequests(SerializerState, m.key.p, m.requests)
       IN /\ inProgressResponses' = S.table
          /\ contexts' = S.contexts
          /\ queryQueue' = S.queue
          /\ workSignal' = S.workSignal
          /\ hist' = S.hist
    /\ UNCHANGED <<rmDone, runExited, traversers, signals, worker, sent,
                   completedListeners, cancelledListeners, unpauseReply, syncCaller,
                   submitted, events>>

\* responseDataRequest.handle: the reply is a rendezvous with the waiting worker
TaskData(key) ==
    IF key \in DOMAIN inProgressResponses
    THEN [empty |-> FALSE, ctx |-> inProgressResponses[key].ctx,
          traverser |-> inProgressResponses[key].traverser]
    ELSE [empty |-> TRUE, ctx |-> 0, traverser |-> 0]

\* mutant: the request is taken off the channel and no reply is sent
Handle_responseDataNoReply ==
    /\ Receive("responseData")
    /\ UNCHANGED <<rmDone, runExited, serializerVars, traversers, signals, worker,
                   outputVars, unpauseReply, syncCaller, submitted, events, hist>>

Handle_responseData ==
    /\ Receive("responseData")
    /\ LET m == NextMessage
           d == TaskData(m.key)
       IN \/ /\ worker[m.w].pc = "awaitData"
             /\ worker' = [worker EXCEPT ![m.w].pc = "execute",
                                         ![m.w].empty = d.empty,
                                         ![m.w].ctx = d.ctx,
                                         ![m.w].traverser = d.traverser]
          \/ /\ rmDone
             /\ UNCHANGED worker
    /\ UNCHANGED <<rmDone, runExited, serializerVars, traversers, signals, outputVars,
                   unpauseReply, syncCaller, submitted, events, hist>>

\* mutant: the entry is deleted and its cancelFn is not called
FinishTaskNoCancelFn(S, key, err) ==
    IF key \notin DOMAIN S.table THEN S
    ELSE IF err = ErrPaused THEN [S EXCEPT !.table[key].isPaused = TRUE]
    ELSE [S EXCEPT !.table = Delete(@, key)]

\* finishTaskRequest.handle
FinishTask(S, key, err) ==
    IF key \notin DOMAIN S.table THEN S
    ELSE IF err = ErrPaused THEN [S EXCEPT !.table[key].isPaused = TRUE]
    ELSE [S EXCEPT !.table = Delete(@, key),
                   !.contexts = Cancel(@, S.table[key].ctx),
                   !.hist[key].cancelCalls = @ + 1]

Handle_finishTask ==
    /\ Receive("finishTask")
    /\ LET m == NextMessage
           S == FinishTask(SerializerState, m.key, m.err)
       IN /\ inProgressResponses' = S.table
          /\ contexts' = S.contexts
          /\ hist' = S.hist
    /\ UNCHANGED <<rmDone, runExited, workSignal, queryQueue, traversers, signals, worker,
                   outputVars, unpauseReply, syncCaller, submitted, events>>

\* mutant: the loader and traverser are not recorded
SetResponseDataDropped(S, key, traverser) == S

\* setResponseDataRequest.handle
SetResponseData(S, key, traverser) ==
    IF key \notin DOMAIN S.table THEN S
    ELSE [S EXCEPT !.table[key].traverser = traverser]

Handle_setResponseData ==
    /\ Receive("setResponseData")
    /\ LET m == NextMessage
           S == SetResponseData(SerializerState, m.key, m.traverser)
       IN inProgressResponses' = S.table
    /\ UNCHANGED <<rmDone, runExited, workSignal, contexts, queryQueue, traversers,
                   signals, worker, outputVars, unpauseReply, syncCaller, submitted,
                   events, hist>>

\* synchronizeMessage.handle: a rendezvous with the caller of synchronize
Handle_synchronize ==
    /\ Receive("synchronize")
    /\ \/ /\ syncCaller.pc = "waiting"
          /\ syncCaller' = [syncCaller EXCEPT !.pc = "returned"]
       \/ /\ rmDone
          /\ UNCHANGED syncCaller
    /\ UNCHANGED <<rmDone, runExited, serializerVars, traversers, signals, worker,
                   outputVars, unpauseReply, submitted, events, hist>>

\* mutant: the entry is not checked
UnpauseAlways(S, key) ==
    [err |-> Nil,
     S   |-> [S EXCEPT !.queue = PushTasks(@, key.p, Task(key, MaxInt32)),
                       !.workSignal = TRUE]]

\* mutant: the task is pushed with the priority of the request and the entry
\* stays marked as paused
UnpauseKeepsFlag(S, key) ==
    IF key \notin DOMAIN S.table
    THEN [err |-> "could not find request", S |-> S]
    ELSE IF ~S.table[key].isPaused
    THEN [err |-> "request is not paused", S |-> S]
    ELSE [err |-> Nil,
          S   |-> [S EXCEPT !.queue = PushTasks(@, key.p,
                                          Task(key, S.table[key].request.priority)),
                            !.workSignal = TRUE]]

\* unpauseRequestMessage.unpauseRequest: the error returned and the state left
unpauseRequest(S, key) ==
    IF key \notin DOMAIN S.table
    THEN [err |-> "could not find request", S |-> S]
    ELSE IF ~S.table[key].isPaused
    THEN [err |-> "request is not paused", S |-> S]
    ELSE [err |-> Nil,
          S   |-> [S EXCEPT !.table[key].isPaused = FALSE,
                            !.queue = PushTasks(@, key.p, Task(key, MaxInt32)),
                            !.workSignal = TRUE]]

\* unpauseRequestMessage.handle; UnpauseResponse returns "Context Cancelled" when it
\* sees rm.ctx done before the reply
Handle_unpause ==
    /\ Receive("unpause")
    /\ LET m == NextMessage
           r == unpauseRequest(SerializerState, m.key)
       IN /\ inProgressResponses' = r.S.table
          /\ queryQueue' = r.S.queue
          /\ workSignal' = r.S.workSignal
          /\ \/ unpauseReply' = [unpauseReply EXCEPT ![m.key] = r.err]
             \/ /\ rmDone
                /\ unpauseReply' = [unpauseReply EXCEPT ![m.key] = "Context Cancelled"]
    /\ UNCHANGED <<rmDone, runExited, contexts, traversers, signals, worker, outputVars,
                   syncCaller, submitted, events, hist>>

\* the reply to a worker's responseUpdateRequest: the pending updates of the key
Handle_responseUpdate ==
    /\ Receive("responseUpdate")
    /\ LET m == NextMessage
       IN \/ /\ worker[m.w].pc = "awaitUpd"
             /\ worker' = [worker EXCEPT ![m.w].pc = "procUpd",
                                         ![m.w].updates = signals[m.key].updates]
             /\ signals' = [signals EXCEPT ![m.key].updates = <<>>]
          \/ /\ rmDone
             /\ UNCHANGED <<worker, signals>>
    /\ UNCHANGED <<rmDone, runExited, serializerVars, traversers, outputVars,
                   unpauseReply, syncCaller, submitted, events, hist>>

\* mutant: run returns without the deferred cleanup
CleanupNothing(table, ctxs) == ctxs

\* cleanupInProcessResponses
CleanupInProcessResponses(table, ctxs) ==
    [c \in DOMAIN ctxs |->
        ctxs[c] \/ \E k \in DOMAIN table : table[k].ctx = c]

\* ResponseManager.run returns on rm.ctx.Done and runs the deferred cleanup
Run_exit ==
    /\ rmDone
    /\ ~runExited
    /\ runExited' = TRUE
    /\ contexts' = CleanupInProcessResponses(inProgressResponses, contexts)
    /\ hist' = [k \in Keys |->
                   IF k \in DOMAIN inProgressResponses
                   THEN [hist[k] EXCEPT !.cancelCalls = @ + 1]
                   ELSE hist[k]]
    /\ UNCHANGED <<rmDone, messages, workSignal, inProgressResponses, traversers, signals,
                   queryQueue, worker, outputVars, unpauseReply, syncCaller, submitted,
                   events>>

(***************************************************************************)
(* The workers: queryExecutor.processQueriesWorker and what it calls.      *)
(***************************************************************************)
RequestCompletedFull == "RequestCompletedFull"
RequestPaused == "RequestPaused"
RequestCancelled == "RequestCancelled"
RequestFailedUnknown == "RequestFailedUnknown"

HookResult(ext, err) == [ext |-> ext, err |-> err]

\* numbers of extensions a hook chain returns
ExtensionCounts == {1}

\* results of the request-hook chain: Err set, or IsValidated false, or IsPaused
RequestHookResults ==
    {[ext |-> e, decision |-> d] :
        e \in ExtensionCounts, d \in {"ok", "pause", "error", "notValidated"}}

BlockHookResults == {HookResult(e, r) : e \in ExtensionCounts, r \in {Nil, ErrPaused, errHook}}

UpdateHookResults == {HookResult(e, r) : e \in ExtensionCounts, r \in {Nil, ErrPaused, errHook}}

\* mutant: errCancelledByCommand is treated as any other error
ExecuteQueryResultNoCommand(err) ==
    IF err = Nil
    THEN [calls |-> <<FinishRequest(RequestCompletedFull)>>,
          status |-> RequestCompletedFull]
    ELSE IF err = ErrPaused
    THEN [calls |-> <<>>, status |-> RequestPaused]
    ELSE IF isContextErr(err)
    THEN [calls |-> <<FinishWithCancel>>, status |-> RequestCancelled]
    ELSE [calls |-> <<FinishWithError(RequestFailedUnknown)>>,
          status |-> RequestFailedUnknown]

\* executeQuery, after RunTraversal returned err: the sender call and the status
ExecuteQueryResult(err) ==
    IF err = Nil
    THEN [calls |-> <<FinishRequest(RequestCompletedFull)>>,
          status |-> RequestCompletedFull]
    ELSE IF err = ErrPaused
    THEN [calls |-> <<>>, status |-> RequestPaused]
    ELSE IF isContextErr(err)
    THEN [calls |-> <<FinishWithCancel>>, status |-> RequestCancelled]
    ELSE IF err = errCancelledByCommand
    THEN [calls |-> <<FinishWithError(RequestCancelled)>>, status |-> RequestCancelled]
    ELSE [calls |-> <<FinishWithError(RequestFailedUnknown)>>,
          status |-> RequestFailedUnknown]

\* mutant: a paused task notifies the completed listeners too
NotifyAlsoWhenPaused(key, status, err) ==
    IF err # Nil /\ isContextErr(err)
    THEN [completed |-> completedListeners,
          cancelled |-> [cancelledListeners EXCEPT ![key] = @ + 1]]
    ELSE [completed |-> [completedListeners EXCEPT ![key] = Append(@, status)],
          cancelled |-> cancelledListeners]

\* processQueriesWorker, the listener calls after executeTask returned
Notify(key, status, err) ==
    LET isPaused == err = ErrPaused
        isCancelled == err # Nil /\ isContextErr(err)
    IN IF isCancelled
       THEN [completed |-> completedListeners,
             cancelled |-> [cancelledListeners EXCEPT ![key] = @ + 1]]
       ELSE IF ~isPaused
       THEN [completed |-> [completedListeners EXCEPT ![key] = Append(@, status)],
             cancelled |-> cancelledListeners]
       ELSE [completed |-> completedListeners, cancelled |-> cancelledListeners]

\* executeTask has returned (status, err): its calls reach the sender, the
\* listeners are told and the worker goes on to send finishTaskRequest
EndTask(w, calls, status, err, h) ==
    LET key == worker[w].key
        n == Notify(key, status, err)
    IN /\ sent' = [sent EXCEPT ![key] = @ \o calls]
       /\ completedListeners' = n.completed
       /\ cancelledListeners' = n.cancelled
       /\ worker' = [worker EXCEPT ![w].pc = "finTask", ![w].status = status,
                                   ![w].err = err]
       /\ hist' = IF h[key].cancelAt \in {"advance", "inflight"}
                      /\ h[key].afterCancel = "-"
                   THEN [h EXCEPT ![key].afterCancel = err]
                   ELSE h

EndQuery(w, calls, err, h) ==
    LET r == ExecuteQueryResult(err)
    IN EndTask(w, calls \o r.calls, r.status, err, h)

Popped(w, r) ==
    /\ queryQueue' = r.q
    /\ worker' = IF r.found
                 THEN [worker EXCEPT ![w].pc = "reqData", ![w].key = r.task.topic,
                                     ![w].peer = r.peer]
                 ELSE [worker EXCEPT ![w].pc = "wait"]

\* line 47: PopTasks at the top of the loop
Worker_pop(w) ==
    /\ worker[w].pc = "pop"
    /\ Popped(w, PopTasks(queryQueue))
    /\ UNCHANGED <<rmDone, runExited, messages, workSignal, inProgressResponses, contexts,
                   traversers, signals, outputVars, unpauseReply, syncCaller, submitted,
                   events, hist>>

\* lines 48-58: no task; the select on ctx.Done, workSignal and the ticker
Worker_waitDone(w) ==
    /\ worker[w].pc = "wait"
    /\ rmDone
    /\ worker' = [worker EXCEPT ![w].pc = "exited"]
    /\ UNCHANGED <<rmDone, runExited, messages, serializerVars, traversers, signals,
                   outputVars, unpauseReply, syncCaller, submitted, events, hist>>

Worker_waitWorkSignal(w) ==
    /\ worker[w].pc = "wait"
    /\ workSignal
    /\ workSignal' = FALSE
    /\ Popped(w, PopTasks(queryQueue))
    /\ UNCHANGED <<rmDone, runExited, messages, inProgressResponses, contexts, traversers,
                   signals, outputVars, unpauseReply, syncCaller, submitted, events, hist>>

\* mutant: the select has no ticker case
Worker_waitNoTicker(w) ==
    /\ worker[w].pc = "wait"
    /\ UNCHANGED vars

\* mutant: the ticker case pops again without thawing the queue
Worker_waitTickerNoThaw(w) ==
    /\ worker[w].pc = "wait"
    /\ Popped(w, PopTasks(queryQueue))
    /\ UNCHANGED <<rmDone, runExited, messages, workSignal, inProgressResponses, contexts,
                   traversers, signals, outputVars, unpauseReply, syncCaller, submitted,
                   events, hist>>

Worker_waitTicker(w) ==
    /\ worker[w].pc = "wait"
    /\ Popped(w, PopTasks(ThawRound(queryQueue)))
    /\ UNCHANGED <<rmDone, runExited, messages, workSignal, inProgressResponses, contexts,
                   traversers, signals, outputVars, unpauseReply, syncCaller, submitted,
                   events, hist>>

\* lines 61-65: send responseDataRequest
Worker_requestData(w) ==
    /\ worker[w].pc = "reqData"
    /\ \/ /\ HasRoom
          /\ messages' = Append(messages,
                 Msg("responseData", worker[w].key, w, <<>>, 0, "-", Nil))
          /\ worker' = [worker EXCEPT ![w].pc = "awaitData"]
       \/ /\ rmDone
          /\ worker' = [worker EXCEPT ![w].pc = "exited"]
          /\ UNCHANGED messages
    /\ UNCHANGED <<rmDone, runExited, serializerVars, traversers, signals, outputVars,
                   unpauseReply, syncCaller, submitted, events, hist>>

\* lines 66-70: waiting for the task data, rm.ctx is done
Worker_awaitDataDone(w) ==
    /\ worker[w].pc = "awaitData"
    /\ rmDone
    /\ worker' = [worker EXCEPT ![w].pc = "exited"]
    /\ UNCHANGED <<rmDone, runExited, messages, serializerVars, traversers, signals,
                   outputVars, unpauseReply, syncCaller, submitted, events, hist>>

\* mutant: only the error of the request hooks is looked at, not IsValidated
PrepareQueryErrOnly(hook, decodeOK) ==
    LET invalid == hook.decision = "error"
        paused == hook.decision = "pause"
        txn == Extensions(hook.ext)
                 \o (IF invalid THEN <<FinishWithError(RequestFailedUnknown)>>
                     ELSE IF paused THEN <<PauseRequest>> ELSE <<>>)
    IN IF invalid THEN [calls |-> txn, isPaused |-> FALSE, err |-> errNotValid]
       ELSE IF ~decodeOK
       THEN [calls |-> Append(txn, FinishWithError(RequestFailedUnknown)),
             isPaused |-> FALSE, err |-> errDecode]
       ELSE [calls |-> txn, isPaused |-> paused, err |-> Nil]

\* prepareQuery: the sender calls of the transaction and of the two extensions,
\* and the error returned
PrepareQuery(hook, decodeOK) ==
    LET invalid == hook.decision \in {"error", "notValidated"}
        paused == hook.decision = "pause"
        txn == Extensions(hook.ext)
                 \o (IF invalid THEN <<FinishWithError(RequestFailedUnknown)>>
                     ELSE IF paused THEN <<PauseRequest>> ELSE <<>>)
    IN IF invalid THEN [calls |-> txn, isPaused |-> FALSE, err |-> errNotValid]
       ELSE IF ~decodeOK
       THEN [calls |-> Append(txn, FinishWithError(RequestFailedUnknown)),
             isPaused |-> FALSE, err |-> errDecode]
       ELSE [calls |-> txn, isPaused |-> paused, err |-> Nil]

\* lines 71-75 and executeTask lines 94-103
Worker_executeTask(w) ==
    LET me == worker[w]
        key == me.key
    IN
    /\ me.pc = "execute"
    /\ IF me.empty
       THEN /\ worker' = [worker EXCEPT ![w].pc = "tasksDone"]
            /\ UNCHANGED <<traversers, outputVars, hist>>
       ELSE IF me.traverser # 0
       THEN /\ worker' = [worker EXCEPT ![w].pc = "run"]
            /\ UNCHANGED <<traversers, outputVars, hist>>
       ELSE \E hook \in RequestHookResults, decodeOK \in BOOLEAN :
              LET r == PrepareQuery(hook, decodeOK)
                  h == [hist EXCEPT ![key].reqHooks = @ + 1,
                                    ![key].rejected =
                                        hook.decision \in {"error", "notValidated"}]
              IN IF r.err # Nil
                 THEN /\ EndTask(w, r.calls, RequestFailedUnknown, r.err, h)
                      /\ UNCHANGED traversers
                 ELSE /\ traversers' = Append(traversers, [pos |-> 0, ctx |-> me.ctx])
                      /\ worker' = [worker EXCEPT ![w].pc = "setData",
                                                  ![w].traverser = Len(traversers) + 1,
                                                  ![w].prepPaused = r.isPaused]
                      /\ sent' = [sent EXCEPT ![key] = @ \o r.calls]
                      /\ hist' = h
                      /\ UNCHANGED <<completedListeners, cancelledListeners>>
    /\ UNCHANGED <<rmDone, runExited, messages, serializerVars, signals, unpauseReply,
                   syncCaller, submitted, events>>

\* executeTask lines 104-111: send setResponseDataRequest
Worker_setResponseData(w) ==
    LET me == worker[w]
    IN
    /\ me.pc = "setData"
    /\ \/ /\ HasRoom
          /\ messages' = Append(messages,
                 Msg("setResponseData", me.key, w, <<>>, me.traverser, "-", Nil))
          /\ IF me.prepPaused
             THEN EndTask(w, <<>>, RequestPaused, ErrPaused, hist)
             ELSE /\ worker' = [worker EXCEPT ![w].pc = "run"]
                  /\ UNCHANGED <<outputVars, hist>>
       \/ /\ rmDone
          /\ EndTask(w, <<>>, RequestFailedUnknown, errShutdown, hist)
          /\ UNCHANGED messages
    /\ UNCHANGED <<rmDone, runExited, serializerVars, traversers, signals, unpauseReply,
                   syncCaller, submitted, events>>

\* one step of the traversal driver: the context it was started with is done, it
\* is complete, it yields the next block, or it fails
Advance(t) ==
    IF CtxDone(t.ctx) THEN {[kind |-> "error", err |-> ContextCancelError]}
    ELSE IF t.pos = NumBlocks THEN {[kind |-> "done", err |-> Nil]}
    ELSE {[kind |-> "block", err |-> Nil], [kind |-> "error", err |-> errTraversal]}

\* executeQuery: RunTraversal asks the traverser for the next block
Worker_advance(w) ==
    LET me == worker[w]
        t == traversers[me.traverser]
    IN
    /\ me.pc = "run"
    /\ \E a \in Advance(t) :
         IF a.kind = "block"
         THEN /\ traversers' = [traversers EXCEPT ![me.traverser].pos = @ + 1]
              /\ worker' = [worker EXCEPT ![w].pc = "poll", ![w].link = t.pos + 1,
                                          ![w].err = Nil]
              /\ hist' = [hist EXCEPT ![me.key].yields = @ + 1]
              /\ UNCHANGED outputVars
         ELSE /\ EndQuery(w, <<>>, a.err, hist)
              /\ UNCHANGED traversers
    /\ UNCHANGED <<rmDone, runExited, messages, serializerVars, signals, unpauseReply,
                   syncCaller, submitted, events>>

\* mutant: after a stop signal the transaction goes on to SendResponse, as it
\* does after a pause signal
Worker_checkForUpdatesStopSends(w) ==
    LET me == worker[w]
        key == me.key
        sig == signals[key]
    IN
    /\ me.pc = "poll"
    /\ \/ /\ sig.stop # "-"
          /\ signals' = [signals EXCEPT ![key].stop = "-"]
          /\ worker' = [worker EXCEPT ![w].pc = "send",
                            ![w].err = IF sig.stop = "self" THEN errCancelledByCommand
                                       ELSE ContextCancelError]
          /\ UNCHANGED <<outputVars, hist>>
       \/ /\ sig.pause
          /\ signals' = [signals EXCEPT ![key].pause = FALSE]
          /\ sent' = [sent EXCEPT ![key] = Append(@, PauseRequest)]
          /\ worker' = [worker EXCEPT ![w].pc = "send", ![w].err = ErrPaused,
                                      ![w].sawPause = TRUE]
          /\ UNCHANGED <<completedListeners, cancelledListeners, hist>>
       \/ /\ sig.update
          /\ signals' = [signals EXCEPT ![key].update = FALSE]
          /\ worker' = [worker EXCEPT ![w].pc = "updReq"]
          /\ UNCHANGED <<outputVars, hist>>
       \/ /\ sig.stop = "-" /\ ~sig.pause /\ ~sig.update
          /\ worker' = [worker EXCEPT ![w].pc = "send"]
          /\ UNCHANGED <<signals, outputVars, hist>>
    /\ UNCHANGED <<rmDone, runExited, messages, serializerVars, traversers, unpauseReply,
                   syncCaller, submitted, events>>

\* checkForUpdates lines 254-263 and 282-284: one pass of the select
Worker_checkForUpdates(w) ==
    LET me == worker[w]
        key == me.key
        sig == signals[key]
    IN
    /\ me.pc = "poll"
    /\ \/ /\ sig.stop # "-"
          /\ signals' = [signals EXCEPT ![key].stop = "-"]
          /\ EndQuery(w, <<>>,
                 IF sig.stop = "self" THEN errCancelledByCommand ELSE ContextCancelError,
                 [hist EXCEPT ![key].pollEnded = TRUE])
       \/ /\ sig.pause
          /\ signals' = [signals EXCEPT ![key].pause = FALSE]
          /\ sent' = [sent EXCEPT ![key] = Append(@, PauseRequest)]
          /\ worker' = [worker EXCEPT ![w].pc = "send", ![w].err = ErrPaused,
                                      ![w].sawPause = TRUE]
          /\ UNCHANGED <<completedListeners, cancelledListeners, hist>>
       \/ /\ sig.update
          /\ signals' = [signals EXCEPT ![key].update = FALSE]
          /\ worker' = [worker EXCEPT ![w].pc = "updReq"]
          /\ UNCHANGED <<outputVars, hist>>
       \/ /\ sig.stop = "-" /\ ~sig.pause /\ ~sig.update
          /\ worker' = [worker EXCEPT ![w].pc = "send"]
          /\ UNCHANGED <<signals, outputVars, hist>>
    /\ UNCHANGED <<rmDone, runExited, messages, serializerVars, traversers, unpauseReply,
                   syncCaller, submitted, events>>

\* checkForUpdates lines 265-268: send responseUpdateRequest
Worker_requestUpdates(w) ==
    /\ worker[w].pc = "updReq"
    /\ \/ /\ HasRoom
          /\ messages' = Append(messages,
                 Msg("responseUpdate", worker[w].key, w, <<>>, 0, "-", Nil))
          /\ worker' = [worker EXCEPT ![w].pc = "awaitUpd"]
       \/ /\ rmDone
          /\ worker' = [worker EXCEPT ![w].pc = "poll"]
          /\ UNCHANGED messages
    /\ UNCHANGED <<rmDone, runExited, serializerVars, traversers, signals, outputVars,
                   unpauseReply, syncCaller, submitted, events, hist>>

\* checkForUpdates line 280: waiting for the updates, rm.ctx is done
Worker_awaitUpdatesDone(w) ==
    /\ worker[w].pc = "awaitUpd"
    /\ rmDone
    /\ worker' = [worker EXCEPT ![w].pc = "poll"]
    /\ UNCHANGED <<rmDone, runExited, messages, serializerVars, traversers, signals,
                   outputVars, unpauseReply, syncCaller, submitted, events, hist>>

\* mutant: the error of an update hook is dropped and the next update is run
Worker_processUpdateGoesOn(w) ==
    LET me == worker[w]
        key == me.key
    IN
    /\ me.pc = "procUpd"
    /\ IF me.updates = <<>>
       THEN /\ worker' = [worker EXCEPT ![w].pc = "poll"]
            /\ UNCHANGED <<outputVars, hist>>
       ELSE \E result \in UpdateHookResults :
              /\ sent' = [sent EXCEPT ![key] = @ \o Extensions(result.ext)]
              /\ worker' = [worker EXCEPT ![w].updates = Tail(@)]
              /\ hist' = [hist EXCEPT ![key].updRun =
                              Append(@, [update |-> Head(me.updates),
                                         err |-> result.err])]
              /\ UNCHANGED <<completedListeners, cancelledListeners>>
    /\ UNCHANGED <<rmDone, runExited, messages, serializerVars, traversers, signals,
                   unpauseReply, syncCaller, submitted, events>>

\* checkForUpdates lines 270-279: one update through the update hooks
Worker_processUpdate(w) ==
    LET me == worker[w]
        key == me.key
    IN
    /\ me.pc = "procUpd"
    /\ IF me.updates = <<>>
       THEN /\ worker' = [worker EXCEPT ![w].pc = "poll"]
            /\ UNCHANGED <<outputVars, hist>>
       ELSE \E result \in UpdateHookResults :
              LET h == [hist EXCEPT ![key].updRun =
                           Append(@, [update |-> Head(me.updates), err |-> result.err])]
              IN IF result.err = Nil
                 THEN /\ sent' = [sent EXCEPT ![key] = @ \o Extensions(result.ext)]
                      /\ worker' = [worker EXCEPT ![w].updates = Tail(@)]
                      /\ hist' = h
                      /\ UNCHANGED <<completedListeners, cancelledListeners>>
                 ELSE IF result.err = ErrPaused
                 THEN /\ sent' = [sent EXCEPT ![key] = @ \o Extensions(result.ext)]
                      /\ worker' = [worker EXCEPT ![w].pc = "send", ![w].err = ErrPaused,
                                                  ![w].updates = <<>>]
                      /\ hist' = h
                      /\ UNCHANGED <<completedListeners, cancelledListeners>>
                 ELSE EndQuery(w, Extensions(result.ext), result.err,
                               [h EXCEPT ![key].pollEnded = TRUE])
    /\ UNCHANGED <<rmDone, runExited, messages, serializerVars, traversers, signals,
                   unpauseReply, syncCaller, submitted, events>>

\* sizes SendResponse reports: 0 for a block the sender suppressed (sent before
\* under the dedup key, or in the ignored set), which goes out as metadata only
BlockSizes == {0, 1}

\* mutant: a suppressed block gets no record at all
SendBlockSkipsSuppressed(link, size, hook, err) ==
    IF size > 0
    THEN [calls |-> <<SendResponse(link, size)>> \o Extensions(hook.ext)
                      \o (IF hook.err = ErrPaused THEN <<PauseRequest>> ELSE <<>>),
          err   |-> IF hook.err # Nil THEN hook.err ELSE err,
          hooked |-> TRUE]
    ELSE [calls |-> <<>>, err |-> err, hooked |-> FALSE]

\* mutant: the block hooks run on every record, also on a suppressed one
SendBlockHooksAlways(link, size, hook, err) ==
    [calls |-> <<SendResponse(link, size)>> \o Extensions(hook.ext)
                 \o (IF hook.err = ErrPaused THEN <<PauseRequest>> ELSE <<>>),
     err   |-> IF hook.err # Nil THEN hook.err ELSE err,
     hooked |-> TRUE]

\* executeQuery lines 212-227: the block record and the block hooks; err is the
\* error checkForUpdates left (nil or ErrPaused); hooked: the block hooks ran
SendBlock(link, size, hook, err) ==
    IF size > 0
    THEN [calls |-> <<SendResponse(link, size)>> \o Extensions(hook.ext)
                      \o (IF hook.err = ErrPaused THEN <<PauseRequest>> ELSE <<>>),
          err   |-> IF hook.err # Nil THEN hook.err ELSE err,
          hooked |-> TRUE]
    ELSE [calls |-> <<SendResponse(link, size)>>, err |-> err, hooked |-> FALSE]

Worker_sendResponse(w) ==
    LET me == worker[w]
        key == me.key
    IN
    /\ me.pc = "send"
    /\ \E size \in BlockSizes, hook \in BlockHookResults :
         LET r == SendBlock(me.link, size, hook, me.err)
             h == IF r.hooked
                  THEN [hist EXCEPT ![key].blockHooks =
                           Append(@, [link |-> me.link, err |-> hook.err])]
                  ELSE hist
         IN IF r.err = Nil
            THEN /\ sent' = [sent EXCEPT ![key] = @ \o r.calls]
                 /\ worker' = [worker EXCEPT ![w].pc = "run"]
                 /\ hist' = h
                 /\ UNCHANGED <<completedListeners, cancelledListeners>>
            ELSE EndQuery(w, r.calls, r.err,
                     IF r.hooked /\ hook.err = ErrPaused
                     THEN [h EXCEPT ![key].hookPause = me.link]
                     ELSE h)
    /\ UNCHANGED <<rmDone, runExited, messages, serializerVars, traversers, signals,
                   unpauseReply, syncCaller, submitted, events>>

\* lines 83-86: send finishTaskRequest
Worker_finishTask(w) ==
    LET me == worker[w]
    IN
    /\ me.pc = "finTask"
    /\ \/ /\ HasRoom
          /\ messages' = Append(messages,
                 Msg("finishTask", me.key, w, <<>>, 0, me.status, me.err))
       \/ /\ rmDone
          /\ UNCHANGED messages
    /\ worker' = [worker EXCEPT ![w].pc = "tasksDone"]
    /\ UNCHANGED <<rmDone, runExited, serializerVars, traversers, signals, outputVars,
                   unpauseReply, syncCaller, submitted, events, hist>>

\* line 88: TasksDone, and back to the top of the loop
Worker_tasksDone(w) ==
    /\ worker[w].pc = "tasksDone"
    /\ queryQueue' = TasksDone(queryQueue, worker[w].peer)
    /\ worker' = [worker EXCEPT ![w] = IdleWorker]
    /\ UNCHANGED <<rmDone, runExited, messages, workSignal, inProgressResponses, contexts,
                   traversers, signals, outputVars, unpauseReply, syncCaller, submitted,
                   events, hist>>

(***************************************************************************)
(* The environment: the public operations and the signal mailboxes.        *)
(***************************************************************************)
Priorities == {1}

\* the keys the environment sends new requests for
ScopeKeys == {[p |-> "p1", requestID |-> 1]}

\* the requests one peer may put in a processRequests call: a new request for an
\* identifier not used before, or a cancel
RequestChoices(p) ==
    {Request(id, FALSE, FALSE, pr) :
        id \in {i \in RequestIDs : /\ [p |-> p, requestID |-> i] \in ScopeKeys
                                   /\ [p |-> p, requestID |-> i] \notin submitted},
        pr \in Priorities}
    \cup {Request(id, TRUE, FALSE, 0) : id \in RequestIDs}

Batches(p) ==
    UNION {[1..n -> RequestChoices(p)] : n \in 1..MaxBatch}

NewIn(requests) == {i \in 1..Len(requests) : ~requests[i].isCancel}
CancelsIn(requests) == {i \in 1..Len(requests) : requests[i].isCancel}

\* ResponseManager.ProcessRequests
ProcessRequests(p) ==
    /\ ~rmDone
    /\ HasRoom
    /\ \E requests \in Batches(p) :
         /\ \A i, j \in NewIn(requests) : requests[i].id = requests[j].id => i = j
         /\ events + Cardinality(CancelsIn(requests)) <= MaxEvents
         /\ messages' = Append(messages,
                Msg("processRequest", [p |-> p, requestID |-> 0], 0, requests, 0, "-", Nil))
         /\ submitted' = submitted \cup
                {[p |-> p, requestID |-> requests[i].id] : i \in NewIn(requests)}
         /\ events' = events + Cardinality(CancelsIn(requests))
         /\ hist' = [k \in Keys |->
                IF /\ k.p = p
                   /\ k \in DOMAIN inProgressResponses
                   /\ \E i \in CancelsIn(requests) : requests[i].id = k.requestID
                THEN [hist[k] EXCEPT !.cancelCtx = inProgressResponses[k].ctx]
                ELSE hist[k]]
    /\ UNCHANGED <<rmDone, runExited, serializerVars, traversers, signals, worker,
                   outputVars, unpauseReply, syncCaller>>

\* ResponseManager.UnpauseResponse, up to the message being accepted
UnpauseResponse(key) ==
    /\ ~rmDone
    /\ HasRoom
    /\ events < MaxEvents
    /\ events' = events + 1
    /\ messages' = Append(messages, Msg("unpause", key, 0, <<>>, 0, "-", Nil))
    /\ UNCHANGED <<rmDone, runExited, serializerVars, traversers, signals, worker,
                   outputVars, unpauseReply, syncCaller, submitted, hist>>

\* ResponseManager.synchronize: the barrier message is sent
Synchronize ==
    /\ ~rmDone
    /\ HasRoom
    /\ syncCaller.pc = "idle"
    /\ events < MaxEvents
    /\ events' = events + 1
    /\ messages' = Append(messages, Msg("synchronize", NoKey, 0, <<>>, 0, "-", Nil))
    /\ syncCaller' = [pc |-> "waiting",
                      after |-> {hist[k].cancelCtx : k \in Keys} \ {0}]
    /\ UNCHANGED <<rmDone, runExited, serializerVars, traversers, signals, worker,
                   outputVars, unpauseReply, submitted, hist>>

\* ResponseManager.synchronize returns because rm.ctx is done
SynchronizeDone ==
    /\ rmDone
    /\ syncCaller.pc = "waiting"
    /\ syncCaller' = [syncCaller EXCEPT !.pc = "returned"]
    /\ UNCHANGED <<rmDone, runExited, messages, serializerVars, traversers, signals,
                   worker, outputVars, unpauseReply, submitted, events, hist>>

\* a pause is asked for a response in progress: a non-blocking send on pauseSignal
PauseSignal(key) ==
    /\ ~rmDone
    /\ events < MaxEvents
    /\ key \in DOMAIN inProgressResponses
    /\ ~signals[key].pause
    /\ signals' = [signals EXCEPT ![key].pause = TRUE]
    /\ events' = events + 1
    /\ UNCHANGED <<rmDone, runExited, messages, serializerVars, traversers, worker,
                   outputVars, unpauseReply, syncCaller, submitted, hist>>

\* a stop is asked for a response in progress: a non-blocking send on stopSignal
StopSignal(key) ==
    /\ ~rmDone
    /\ events < MaxEvents
    /\ key \in DOMAIN inProgressResponses
    /\ signals[key].stop = "-"
    /\ \E selfCancelled \in BOOLEAN :
         signals' = [signals EXCEPT
                        ![key].stop = IF selfCancelled THEN "self" ELSE "context"]
    /\ events' = events + 1
    /\ UNCHANGED <<rmDone, runExited, messages, serializerVars, traversers, worker,
                   outputVars, unpauseReply, syncCaller, submitted, hist>>

\* an update for a response in progress is kept for the worker, after the ones
\* kept before, and updateSignal is poked; an update is named by the number of
\* the event that brought it
UpdateSignal(key) ==
    /\ ~rmDone
    /\ events < MaxEvents
    /\ key \in DOMAIN inProgressResponses
    /\ signals' = [signals EXCEPT ![key].update = TRUE,
                                   ![key].updates = Append(@, events + 1)]
    /\ events' = events + 1
    /\ UNCHANGED <<rmDone, runExited, messages, serializerVars, traversers, worker,
                   outputVars, unpauseReply, syncCaller, submitted, hist>>

\* ResponseManager.Shutdown
Shutdown ==
    /\ ~rmDone
    /\ rmDone' = TRUE
    /\ UNCHANGED <<runExited, messages, serializerVars, traversers, signals, worker,
                   outputVars, unpauseReply, syncCaller, submitted, events, hist>>

Serializer ==
    \/ Handle_processRequest
    \/ Handle_responseData
    \/ Handle_finishTask
    \/ Handle_setResponseData
    \/ Handle_synchronize
    \/ Handle_unpause
    \/ Handle_responseUpdate

WorkerStep(w) ==
    \/ Worker_pop(w)
    \/ Worker_waitWorkSignal(w)
    \/ Worker_waitTicker(w)
    \/ Worker_requestData(w)
    \/ Worker_executeTask(w)
    \/ Worker_setResponseData(w)
    \/ Worker_advance(w)
    \/ Worker_checkForUpdates(w)
    \/ Worker_requestUpdates(w)
    \/ Worker_processUpdate(w)
    \/ Worker_sendResponse(w)
    \/ Worker_finishTask(w)
    \/ Worker_tasksDone(w)

Environment ==
    \/ \E p \in Peers : ProcessRequests(p)
    \/ \E k \in ScopeKeys : UnpauseResponse(k)
    \/ Synchronize
    \/ \E k \in ScopeKeys : PauseSignal(k)
    \/ \E k \in ScopeKeys : StopSignal(k)
    \/ \E k \in ScopeKeys : UpdateSignal(k)

\* the manager is running
Next ==
    \/ Serializer
    \/ \E w \in Workers : WorkerStep(w)
    \/ Environment

Spec == Init /\ [][Next]_vars

\* what rm.ctx being done adds: every select that has a ctx.Done case
ShutdownStep ==
    \/ Shutdown
    \/ Run_exit
    \/ SynchronizeDone
    \/ \E w \in Workers : Worker_waitDone(w)
    \/ \E w \in Workers : Worker_awaitDataDone(w)
    \/ \E w \in Workers : Worker_awaitUpdatesDone(w)

NextShutdown == Next \/ ShutdownStep

SpecShutdown == Init /\ [][NextShutdown]_vars

\* a pool of one worker: the serializer and the environment with worker 1 alone.
\* The serializer and the worker are goroutines that run whenever they can take a
\* step, and the ticker keeps firing.
NextOneWorker ==
    \/ Serializer
    \/ WorkerStep(1)
    \/ Environment

FairOneWorker ==
    /\ WF_vars(Serializer)
    /\ WF_vars(WorkerStep(1))
    /\ WF_vars(Worker_waitTicker(1))

SpecOneWorker == Init /\ [][NextOneWorker]_vars /\ FairOneWorker

(***************************************************************************)
(* Continuous traffic: peers keep sending new requests.  A peer may use the *)
(* identifier of a request again once that request is over and forgotten;   *)
(* the records kept of it are dropped then, so that traffic can go on for   *)
(* ever in a finite state space.                                            *)
(***************************************************************************)
\* no message about the key is on the channel, no task for it is queued and no
\* worker holds one
AtRestKey(key) ==
    /\ \A i \in 1..Len(messages) :
          /\ messages[i].key # key
          /\ messages[i].type = "processRequest" =>
                 \/ messages[i].key.p # key.p
                 \/ \A j \in 1..Len(messages[i].requests) :
                       messages[i].requests[j].id # key.requestID
    /\ ~Pending(key)
    /\ \A w \in Workers : worker[w].key # key

\* ResponseManager.ProcessRequests with one new request, of any peer
NewRequestFor(key) ==
    /\ ~rmDone
    /\ HasRoom
    /\ key \notin submitted
    /\ \E pr \in Priorities :
         messages' = Append(messages,
             Msg("processRequest", [p |-> key.p, requestID |-> 0], 0,
                 <<Request(key.requestID, FALSE, FALSE, pr)>>, 0, "-", Nil))
    /\ submitted' = submitted \cup {key}
    /\ UNCHANGED <<rmDone, runExited, serializerVars, traversers, signals, worker,
                   outputVars, unpauseReply, syncCaller, events, hist>>

\* the contexts and traversers something still refers to
UsedContexts ==
    {inProgressResponses[k].ctx : k \in DOMAIN inProgressResponses}
        \cup {worker[w].ctx : w \in Workers}
        \cup {traversers[i].ctx : i \in 1..Len(traversers)}

UsedTraversers ==
    {inProgressResponses[k].traverser : k \in DOMAIN inProgressResponses}
        \cup {worker[w].traverser : w \in Workers}
        \cup {messages[i].traverser : i \in 1..Len(messages)}

\* seq without the elements at its end that nothing refers to
Trim(seq, used) ==
    LET live == {i \in 1..Len(seq) : i \in used}
        n == IF live = {} THEN 0 ELSE CHOOSE i \in live : \A j \in live : j <= i
    IN SubSeq(seq, 1, n)

\* a request that is over is forgotten: its identifier is free again
Forget(key) ==
    /\ key \in submitted
    /\ AtRestKey(key)
    /\ key \notin DOMAIN inProgressResponses
    /\ submitted' = submitted \ {key}
    /\ sent' = [sent EXCEPT ![key] = <<>>]
    /\ completedListeners' = [completedListeners EXCEPT ![key] = <<>>]
    /\ cancelledListeners' = [cancelledListeners EXCEPT ![key] = 0]
    /\ unpauseReply' = [unpauseReply EXCEPT ![key] = "-"]
    /\ hist' = [hist EXCEPT ![key] = NoHist]
    /\ traversers' = Trim(traversers, UsedTraversers)
    /\ contexts' = Trim(contexts,
                        {inProgressResponses[k].ctx : k \in DOMAIN inProgressResponses}
                          \cup {worker[w].ctx : w \in Workers}
                          \cup {traversers'[i].ctx : i \in 1..Len(traversers')})
    /\ UNCHANGED <<rmDone, runExited, messages, workSignal, inProgressResponses,
                   queryQueue, signals, worker, syncCaller, events>>

\* the peer whose traffic goes on
TrafficPeer == "p2"

Traffic ==
    \/ \E k \in Keys : NewRequestFor(k)
    \/ \E k \in ScopeKeys : UnpauseResponse(k)
    \/ \E k \in Keys : k.p = TrafficPeer /\ Forget(k)

\* the pool of the traffic runs
TrafficWorkers == {1}

\* hooks that return ok or, for the request hooks, pause; blocks that are sent
\* in full; a traversal that does not fail
PlainRun ==
    /\ \A w \in Workers : worker[w].err \in {Nil, ErrPaused}
    /\ \A k \in Keys :
          /\ hist[k].hookPause = 0
          /\ \A i \in 1..Len(sent[k]) :
                sent[k][i].call = "SendResponse" => sent[k][i].size = 1

NextTraffic ==
    \/ Handle_processRequest
    \/ Handle_responseData
    \/ Handle_finishTask
    \/ Handle_setResponseData
    \/ Handle_unpause
    \/ \E w \in TrafficWorkers :
          \/ Worker_pop(w)
          \/ Worker_waitWorkSignal(w)
          \/ Worker_waitTicker(w)
          \/ Worker_requestData(w)
          \/ Worker_executeTask(w) /\ PlainRun'
          \/ Worker_setResponseData(w)
          \/ Worker_advance(w) /\ PlainRun'
          \/ Worker_checkForUpdates(w)
          \/ Worker_sendResponse(w) /\ PlainRun'
          \/ Worker_finishTask(w)
          \/ Worker_tasksDone(w)
    \/ Traffic

\* the goroutines run whenever they can take a step and the ticker keeps firing;
\* nothing is assumed of the traffic
FairTraffic ==
    /\ WF_vars(Serializer)
    /\ \A w \in TrafficWorkers :
          /\ WF_vars(WorkerStep(w) /\ PlainRun')
          /\ WF_vars(Worker_waitTicker(w))

SpecTraffic == Init /\ [][NextTraffic]_vars /\ FairTraffic

(***************************************************************************)
(* Shutdown while responses are queued, running or paused.                  *)
(***************************************************************************)
NextStopping ==
    \/ Handle_processRequest
    \/ Handle_responseData
    \/ Handle_finishTask
    \/ Handle_setResponseData
    \/ Handle_unpause
    \/ Run_exit
    \/ \E w \in Workers :
          \/ Worker_pop(w)
          \/ Worker_waitDone(w)
          \/ Worker_waitWorkSignal(w)
          \/ Worker_waitTicker(w)
          \/ Worker_requestData(w)
          \/ Worker_awaitDataDone(w)
          \/ Worker_executeTask(w)
          \/ Worker_setResponseData(w)
          \/ Worker_advance(w)
          \/ Worker_checkForUpdates(w)
          \/ Worker_sendResponse(w)
          \/ Worker_finishTask(w)
          \/ Worker_tasksDone(w)
    \/ \E k \in ScopeKeys : NewRequestFor(k)
    \/ \E k \in ScopeKeys : UnpauseResponse(k)
    \/ Shutdown

\* the goroutines run whenever they can take a step; a select that has the
\* ctx.Done case ready for ever takes it in the end
FairStopping ==
    /\ WF_vars(Serializer)
    /\ WF_vars(Run_exit)
    /\ \A w \in Workers :
          /\ WF_vars(WorkerStep(w))
          /\ WF_vars(Worker_waitDone(w))
          /\ WF_vars(Worker_awaitDataDone(w))

SpecStopping == Init /\ [][NextStopping]_vars /\ FairStopping

(***************************************************************************)
(* Update requests: a peer sends a request marked isUpdate for a request it *)
(* sent before, through ProcessRequests like any other request.             *)
(***************************************************************************)
\* ResponseManager.ProcessRequests with one request marked isUpdate
UpdateRequestFor(key) ==
    /\ ~rmDone
    /\ HasRoom
    /\ key \in submitted
    /\ events < MaxEvents
    /\ events' = events + 1
    /\ \E pr \in Priorities :
         messages' = Append(messages,
             Msg("processRequest", [p |-> key.p, requestID |-> 0], 0,
                 <<Request(key.requestID, FALSE, TRUE, pr)>>, 0, "-", Nil))
    /\ UNCHANGED <<rmDone, runExited, serializerVars, traversers, signals, worker,
                   outputVars, unpauseReply, syncCaller, submitted, hist>>

\* the pool of the runs with update requests
UpdateWorkers == {1}

NextUpdates ==
    \/ Handle_processRequest
    \/ Handle_responseData
    \/ Handle_finishTask
    \/ Handle_setResponseData
    \/ \E w \in UpdateWorkers :
          \/ Worker_pop(w)
          \/ Worker_waitWorkSignal(w)
          \/ Worker_waitTicker(w)
          \/ Worker_requestData(w)
          \/ Worker_executeTask(w)
          \/ Worker_setResponseData(w)
          \/ Worker_advance(w)
          \/ Worker_checkForUpdates(w)
          \/ Worker_sendResponse(w)
          \/ Worker_finishTask(w)
          \/ Worker_tasksDone(w)
    \/ \E k \in ScopeKeys : NewRequestFor(k)
    \/ \E k \in ScopeKeys : UpdateRequestFor(k)

SpecUpdates == Init /\ [][NextUpdates]_vars

\* the whole pool, with hooks that return ok or, for the request hooks, pause, and
\* one update request, sent before any other control event
NextUpdatesPool ==
    \/ Handle_processRequest
    \/ Handle_responseData
    \/ Handle_finishTask
    \/ Handle_setResponseData
    \/ Handle_unpause
    \/ \E w \in Workers :
          \/ Worker_pop(w)
          \/ Worker_waitWorkSignal(w)
          \/ Worker_waitTicker(w)
          \/ Worker_requestData(w)
          \/ Worker_executeTask(w) /\ PlainRun'
          \/ Worker_setResponseData(w)
          \/ Worker_advance(w) /\ PlainRun'
          \/ Worker_checkForUpdates(w)
          \/ Worker_sendResponse(w) /\ PlainRun'
          \/ Worker_finishTask(w)
          \/ Worker_tasksDone(w)
    \/ \E k \in ScopeKeys : NewRequestFor(k)
    \/ \E k \in ScopeKeys : events = 0 /\ UpdateRequestFor(k)
    \/ \E k \in ScopeKeys : UnpauseResponse(k)

SpecUpdatesPool == Init /\ [][NextUpdatesPool]_vars

(***************************************************************************)
(* Cancels and shutdown: requests are sent, cancelled (also twice, also     *)
(* when absent) and the manager is shut down at any moment.                 *)
(***************************************************************************)
NextCancelling ==
    \/ Handle_processRequest
    \/ Handle_responseData
    \/ Handle_finishTask
    \/ Handle_setResponseData
    \/ Run_exit
    \/ \E w \in Workers :
          \/ Worker_pop(w)
          \/ Worker_waitDone(w)
          \/ Worker_waitWorkSignal(w)
          \/ Worker_waitTicker(w)
          \/ Worker_requestData(w)
          \/ Worker_awaitDataDone(w)
          \/ Worker_executeTask(w)
          \/ Worker_setResponseData(w)
          \/ Worker_advance(w)
          \/ Worker_checkForUpdates(w)
          \/ Worker_sendResponse(w)
          \/ Worker_finishTask(w)
          \/ Worker_tasksDone(w)
    \/ \E p \in Peers : ProcessRequests(p)
    \/ Shutdown

SpecCancelling == Init /\ [][NextCancelling]_vars

(***************************************************************************)
(* The manager is live: both peers send requests, an update arrives, and    *)
(* the workers and the serializer contend for the messages channel.         *)
(***************************************************************************)
\* hooks that return ok, blocks that are sent in full and a traversal that does
\* not fail
QuietRun ==
    /\ PlainRun
    /\ \A w \in Workers : worker[w].err = Nil /\ ~worker[w].prepPaused

NextLive ==
    \/ Handle_processRequest
    \/ Handle_responseData
    \/ Handle_finishTask
    \/ Handle_setResponseData
    \/ Handle_responseUpdate
    \/ \E w \in Workers :
          \/ Worker_pop(w)
          \/ Worker_waitWorkSignal(w)
          \/ Worker_waitTicker(w)
          \/ Worker_requestData(w)
          \/ Worker_executeTask(w) /\ QuietRun'
          \/ Worker_setResponseData(w)
          \/ Worker_advance(w) /\ QuietRun'
          \/ Worker_checkForUpdates(w)
          \/ Worker_requestUpdates(w)
          \/ Worker_processUpdate(w) /\ QuietRun'
          \/ Worker_sendResponse(w) /\ QuietRun'
          \/ Worker_finishTask(w)
          \/ Worker_tasksDone(w)
    \/ \E k \in Keys : NewRequestFor(k)
    \/ \E k \in ScopeKeys : events = 0 /\ UpdateSignal(k)

\* the goroutines run whenever they can take a step (a worker that can take a
\* step can take a quiet one: no context is cancelled while its traversal runs)
FairLive ==
    /\ WF_vars(Serializer)
    /\ \A w \in Workers : WF_vars(WorkerStep(w))

SpecLive == Init /\ [][NextLive]_vars /\ FairLive

(***************************************************************************)
(* Properties.                                                             *)
(***************************************************************************)
Last(seq) == seq[Len(seq)]

InTable(k) == k \in DOMAIN inProgressResponses

IsPaused(k) == InTable(k) /\ inProgressResponses[k].isPaused

\* a message on the channel concerns the key
Concerns(m, k) ==
    \/ m.key = k
    \/ /\ m.type = "processRequest"
       /\ m.key.p = k.p
       /\ \E i \in 1..Len(m.requests) : m.requests[i].id = k.requestID

\* nothing is left to happen for the key unless a new input arrives: no message
\* about it is on the channel, no task for it is queued and no worker holds one
AtRest(k) ==
    /\ k \in submitted
    /\ \A i \in 1..Len(messages) : ~Concerns(messages[i], k)
    /\ ~Pending(k)
    /\ \A w \in Workers : worker[w].key # k

Notifications(k) == Len(completedListeners[k]) + cancelledListeners[k]

\* C1: every accepted request that is not left paused gets exactly one terminal
\* status record on the sender (FinishRequest, FinishWithError or
\* FinishWithCancel): never two, and one once nothing is left to happen for it.
C1_ExactlyOneTerminalRecord ==
    \A k \in Keys :
        /\ TerminalCount(k) <= 1
        /\ (AtRest(k) /\ ~IsPaused(k)) => TerminalCount(k) = 1

\* C2: every key entered into the table is removed from it unless it stays
\* paused: once nothing is left to happen for a key, an entry still in the table
\* is a paused one.
C2_EntryRemovedUnlessPaused ==
    \A k \in Keys : (AtRest(k) /\ InTable(k)) => inProgressResponses[k].isPaused

C4_PauseSignalPauses ==
    /\ \A w \in Workers :
          (worker[w].pc = "finTask" /\ worker[w].sawPause) => worker[w].err = ErrPaused
    /\ \A k \in Keys :
          IsPaused(k) =>
              \A w \in Workers :
                  worker[w].key = k =>
                      worker[w].pc \notin {"run", "poll", "updReq", "awaitUpd",
                                           "procUpd", "send"}

CancelledRunning(k) == hist[k].cancelAt \in {"advance", "inflight"}

\* the task that was running when the cancel was handled has ended
EndedAfterCancel(k) == CancelledRunning(k) /\ hist[k].afterCancel # "-"

EndsCancelled(k) ==
    /\ sent[k] # <<>>
    /\ Last(sent[k]) = FinishWithCancel
    /\ TerminalCount(k) = 1
    /\ cancelledListeners[k] = 1
    /\ completedListeners[k] = <<>>

C6_CancelNotifiesCancelled ==
    \A k \in Keys :
        (hist[k].cancelAt \notin {"-", "absent"}) =>
            /\ contexts[hist[k].ctxAtCancel]
            /\ ~Pending(k)
            /\ AtRest(k) => cancelledListeners[k] = 1

\* C7: when the synchronize barrier has returned, the context of every key that
\* was in the table when a cancel for it was delivered before the barrier is
\* cancelled.
C7_CancelledBeforeBarrierReturns ==
    syncCaller.pc = "returned" => \A c \in syncCaller.after : CtxDone(c)

\* C7 witness: the barrier returned through its handler after such a cancel,
\* while the entry is still in the table.
C7_Witness ==
    /\ syncCaller.pc = "returned"
    /\ ~rmDone
    /\ \E k \in Keys : InTable(k) /\ inProgressResponses[k].ctx \in syncCaller.after

OnlyCancelsOfAbsentKeys(m) ==
    /\ m.type = "processRequest"
    /\ \A i \in 1..Len(m.requests) :
          /\ m.requests[i].isCancel
          /\ ~InTable([p |-> m.key.p, requestID |-> m.requests[i].id])

HandlesNext == ~runExited /\ messages # <<>> /\ messages' = Tail(messages)

\* C8: handling cancels for keys that are absent from the table changes neither
\* the table, the queue, any context nor the work signal, and causes no sender
\* call and no listener notification.
C8_CancelOfAbsentKeyIsNoOp ==
    [][(HandlesNext /\ OnlyCancelsOfAbsentKeys(Head(messages))) =>
           UNCHANGED <<inProgressResponses, queryQueue, contexts, workSignal, signals,
                       sent, completedListeners, cancelledListeners>>]_vars

\* C8 witness: a cancel was handled for a key that is absent while the response of
\* another key is in progress.
C8_Witness ==
    \E k \in Keys :
        /\ hist[k].cancelAt = "absent"
        /\ \E j \in Keys : j # k /\ InTable(j) /\ ~contexts[inProgressResponses[j].ctx]

UnpauseOfAbsentOrRunning(m) ==
    /\ m.type = "unpause"
    /\ ~IsPaused(m.key)

\* C9: unpauseResponse for a key that is absent or not paused returns an error
\* and leaves the table, the queue and the work signal as they were.
C9_UnpauseOfNonPausedFails ==
    [][(HandlesNext /\ UnpauseOfAbsentOrRunning(Head(messages))) =>
           /\ unpauseReply'[Head(messages).key] \notin {Nil, "-"}
           /\ UNCHANGED <<inProgressResponses, queryQueue, workSignal, contexts>>]_vars

\* C9 witness: an unpause of a response that is in the table and not paused was
\* refused.
C9_Witness ==
    \E k \in Keys :
        /\ unpauseReply[k] = "request is not paused"
        /\ InTable(k)
        /\ ~Pending(k)

InOrder(blocks) == \A i \in 1..Len(blocks) : blocks[i].link = i

\* C10: a block hook pausing at block j leaves exactly j block records followed by
\* a pause and no notification; the resumed task gets the traverser recorded by
\* setResponseData, so the request hooks run once; block records are never
\* repeated or skipped; a traversal that completes ends with FinishRequest after
\* all its blocks and exactly one completed notification.
C10_PauseThenResume ==
    \A k \in Keys :
        /\ InOrder(Blocks(k))
        /\ hist[k].reqHooks <= 1
        /\ \A w \in Workers :
              (worker[w].key = k /\ worker[w].pc = "finTask") =>
                  /\ (worker[w].err = ErrPaused /\ hist[k].hookPause = worker[w].link
                        /\ worker[w].link > 0) =>
                         /\ Len(Blocks(k)) = hist[k].hookPause
                         /\ Last(sent[k]) = PauseRequest
                         /\ Notifications(k) = 0
                  /\ worker[w].err = Nil =>
                         /\ Len(Blocks(k)) = NumBlocks
                         /\ Last(sent[k]) = FinishRequest(RequestCompletedFull)
                         /\ completedListeners[k] = <<RequestCompletedFull>>
                         /\ cancelledListeners[k] = 0
        /\ \A w \in Workers :
              (worker[w].key = k /\ worker[w].pc = "execute" /\ ~worker[w].empty
                 /\ hist[k].reqHooks > 0) => worker[w].traverser # 0

\* C10 witness: a block hook paused the response at block 1, unpauseResponse
\* succeeded and the resumed traversal completed.
C10_Witness ==
    \E w \in Workers :
        /\ worker[w].pc = "finTask"
        /\ worker[w].err = Nil
        /\ hist[worker[w].key].hookPause = 1
        /\ unpauseReply[worker[w].key] = Nil

UnpauseOfPaused(m) ==
    /\ m.type = "unpause"
    /\ IsPaused(m.key)

C12_RejectedByRequestHooks ==
    \A k \in Keys :
        hist[k].rejected =>
            /\ \E n \in ExtensionCounts :
                  sent[k] = Extensions(n) \o <<FinishWithError(RequestFailedUnknown)>>
            /\ Blocks(k) = <<>>
            /\ completedListeners[k] = <<RequestFailedUnknown>>
            /\ cancelledListeners[k] = 0
            /\ \A w \in Workers : worker[w].key = k => worker[w].traverser = 0
            /\ \A i \in 1..Len(traversers) :
                  InTable(k) => traversers[i].ctx # inProgressResponses[k].ctx
            /\ AtRest(k) => ~InTable(k)

\* C12 witness: a request that was rejected by its request hooks has been
\* finished and its entry is gone.
C12_Witness ==
    \E k \in Keys :
        /\ hist[k].rejected
        /\ AtRest(k)
        /\ ~InTable(k)
        /\ completedListeners[k] = <<RequestFailedUnknown>>

\* a worker is inside the transaction of a pair the traverser of k yielded
MidYield(k) ==
    \E w \in Workers :
        /\ worker[w].key = k
        /\ worker[w].pc \in {"poll", "updReq", "awaitUpd", "procUpd", "send"}

\* C13 as stated: every pair the traverser yielded has exactly one SendResponse
\* call once its transaction is over, whatever was polled, and the block
\* records are in the order of the yields.
C13_OneSendPerYield ==
    \A k \in Keys :
        /\ InOrder(Blocks(k))
        /\ Len(Blocks(k)) = hist[k].yields - (IF MidYield(k) THEN 1 ELSE 0)

\* C13 amended: every pair the traverser yielded has exactly one SendResponse
\* call (of size 0 when the sender suppressed the block) once its transaction is
\* over, also when a pause signal was polled on it, except the pair on which
\* the poll ended the traversal (a stop signal, or an update hook returning an
\* error other than pause), which has none; the block records are in the order
\* of the yields.
C13_OneSendPerYieldUnlessStopped ==
    \A k \in Keys :
        /\ InOrder(Blocks(k))
        /\ Len(Blocks(k)) = hist[k].yields
                               - (IF MidYield(k) \/ hist[k].pollEnded THEN 1 ELSE 0)
        /\ hist[k].pollEnded => ~MidYield(k)

\* C13 witness: the first pair went out as a suppressed record of size 0 and the
\* second pair, on which the poll ended the traversal, has no record.
C13_Witness ==
    \E k \in Keys :
        /\ hist[k].pollEnded
        /\ hist[k].yields = 2
        /\ Blocks(k) = <<SendResponse(1, 0)>>

\* C14: with one worker, a request that is in the table and not paused leads to
\* its terminal outcome (one terminal status record, entry out of the table)
\* unless it is paused or a cancel for it is handled first.
C14_OneWorkerCompletes ==
    \A k \in Keys :
        (InTable(k) /\ ~IsPaused(k)) ~>
            \/ TerminalCount(k) = 1 /\ ~InTable(k)
            \/ IsPaused(k)
            \/ hist[k].cancelAt # "-"

\* C14 witness: the one worker ran a request that was paused, then, after the
\* unpause, popped its peer again once the ticker thawed it and completed it.
C14_Witness ==
    \E k \in Keys :
        /\ unpauseReply[k] = Nil
        /\ ~InTable(k)
        /\ Last(sent[k]) = FinishRequest(RequestCompletedFull)
        /\ worker[2] = IdleWorker
        /\ hist[k].cancelAt = "-"

\* a worker has just popped a task of the peer
PoppedFor(p) == \E w \in Workers : worker[w].pc = "reqData" /\ worker[w].peer = p

\* C15: a peer that is frozen and has a task queued is popped again, whatever
\* the traffic of the other peer.
C15_FrozenPeerIsPoppedAgain ==
    \A p \in Peers :
        (p \in queryQueue.frozen /\ queryQueue.tasks[p] # <<>>) ~> PoppedFor(p)

\* C15 witness: a task of peer p1, queued while p1 was frozen, is popped after
\* the other peer had a request finished, forgotten and sent again.
C15_Witness ==
    /\ PoppedFor("p1")
    /\ \E k \in ScopeKeys : unpauseReply[k] = Nil
    /\ "p2" \in queryQueue.frozen
    /\ \E k \in Keys : k.p = TrafficPeer /\ InTable(k) /\ Pending(k)

AllExited == runExited /\ \A w \in Workers : worker[w].pc = "exited"

\* C16: once rm.ctx is cancelled every worker loop and the serializer loop exit,
\* and when the serializer loop has exited the cancelFn of every entry in the
\* table has been called.
C16_ShutdownStopsAll ==
    /\ rmDone ~> AllExited
    /\ [](runExited =>
             \A k \in DOMAIN inProgressResponses :
                 contexts[inProgressResponses[k].ctx])

\* C16 witness: everything has exited after a shutdown that came while a worker
\* was running a traversal, and the entry of that response is still in the table.
C16_Witness ==
    /\ AllExited
    /\ \E k \in Keys :
          /\ InTable(k)
          /\ ~IsPaused(k)
          /\ Blocks(k) # <<>>
          /\ TerminalCount(k) = 1

\* a worker has ended the task of k because rm.ctx is done: executeTask gave up
\* sending setResponseDataRequest, or the traversal found its context done with
\* no cancel handled and no stop signal polled for k
EndedByShutdown(w, k) ==
    /\ worker[w].key = k
    /\ worker[w].pc = "finTask"
    /\ rmDone
    /\ \/ worker[w].err = errShutdown
       \/ /\ worker[w].err = ContextCancelError
          /\ hist[k].cancelAt = "-"
          /\ ~hist[k].pollEnded

\* C17: a task that ends because rm.ctx is done notifies neither the completed
\* nor the cancelled listeners.
C17_ShutdownIsSilent ==
    \A k \in Keys : \A w \in Workers :
        EndedByShutdown(w, k) => Notifications(k) = 0

\* the task of k ended with this finish call, its only one, and this status
EndedWith(w, k, call, status) ==
    /\ sent[k] # <<>>
    /\ Last(sent[k]) = call
    /\ TerminalCount(k) = 1
    /\ worker[w].status = status

\* C18: executeQuery turns the error the traversal ended with into one finish
\* call and one status: nil into FinishRequest and the status it returned,
\* ErrPaused into no finish call and RequestPaused, the context-cancelled error
\* into FinishWithCancel and RequestCancelled, errCancelledByCommand into
\* FinishWithError(RequestCancelled) and RequestCancelled, any other error into
\* FinishWithError(RequestFailedUnknown) and RequestFailedUnknown.  (A task
\* whose worker holds a traverser ended in executeQuery, unless executeTask gave
\* up on rm.ctx being done.)
C18_OutcomeMapping ==
    \A k \in Keys : \A w \in Workers :
        (worker[w].key = k /\ worker[w].pc = "finTask" /\ worker[w].traverser # 0
           /\ worker[w].err # errShutdown) =>
            CASE worker[w].err = Nil ->
                   EndedWith(w, k, FinishRequest(RequestCompletedFull),
                             RequestCompletedFull)
              [] worker[w].err = ErrPaused ->
                   TerminalCount(k) = 0 /\ worker[w].status = RequestPaused
              [] worker[w].err = ContextCancelError ->
                   EndedWith(w, k, FinishWithCancel, RequestCancelled)
              [] worker[w].err = errCancelledByCommand ->
                   EndedWith(w, k, FinishWithError(RequestCancelled), RequestCancelled)
              [] OTHER ->
                   EndedWith(w, k, FinishWithError(RequestFailedUnknown),
                             RequestFailedUnknown)

\* C18 witness: a traversal stopped by the responder's own command ended with
\* FinishWithError(RequestCancelled).
C18_Witness ==
    \E k \in Keys : \E w \in Workers :
        /\ worker[w].key = k
        /\ worker[w].pc = "finTask"
        /\ worker[w].err = errCancelledByCommand
        /\ EndedWith(w, k, FinishWithError(RequestCancelled), RequestCancelled)
        /\ Blocks(k) # <<>>

\* the error checkForUpdates returns for a stop signal
StopError(stop) == IF stop = "self" THEN errCancelledByCommand ELSE ContextCancelError

\* C19: the step in which a worker takes the stop signal of k ends the traversal
\* at once with errCancelledByCommand (selfCancelled) or the context-cancelled
\* error: the pair of the current yield gets no block record and no block hook
\* runs, only the finish call of that error is made; and nothing is yielded or
\* sent as a block for k afterwards.
C19_StopSignalEndsTraversal ==
    [][\A k \in Keys :
          /\ (signals[k].stop # "-" /\ signals'[k].stop = "-") =>
                \E w \in Workers :
                    /\ worker[w].key = k
                    /\ worker[w].pc = "poll"
                    /\ worker'[w].pc = "finTask"
                    /\ worker'[w].err = StopError(signals[k].stop)
                    /\ sent'[k] = sent[k] \o ExecuteQueryResult(worker'[w].err).calls
          /\ hist[k].pollEnded =>
                /\ hist'[k].yields = hist[k].yields
                /\ SelectSeq(sent'[k], LAMBDA c : c.call = "SendResponse") = Blocks(k)
      ]_vars

\* C19 witness: a stop signal that was not the responder's own ended a traversal
\* on its second yield with the context-cancelled error, one block record sent.
C19_Witness ==
    \E k \in Keys : \E w \in Workers :
        /\ worker[w].key = k
        /\ worker[w].pc = "finTask"
        /\ worker[w].err = ContextCancelError
        /\ hist[k].pollEnded
        /\ hist[k].cancelAt = "-"
        /\ hist[k].yields = 2
        /\ Len(Blocks(k)) = 1
        /\ Last(sent[k]) = FinishWithCancel

\* C20: while the worker that polled the pause signal of k still holds the task,
\* no block record is sent for k: the transaction that called PauseRequest for
\* the signal makes no SendResponse call afterwards.
C20_NoBlockAfterPauseSignal ==
    [][\A k \in Keys :
          (\E w \in Workers : worker[w].key = k /\ worker[w].sawPause) =>
              SelectSeq(sent'[k], LAMBDA c : c.call = "SendResponse") = Blocks(k)
      ]_vars

\* the message is a processRequests call with a request marked isUpdate whose key
\* is in the table
UpdateOfEntry(m) ==
    /\ m.type = "processRequest"
    /\ \E i \in 1..Len(m.requests) :
          /\ m.requests[i].isUpdate
          /\ ~m.requests[i].isCancel
          /\ InTable([p |-> m.key.p, requestID |-> m.requests[i].id])

\* C21: handling a request marked isUpdate whose key is in the table leaves the
\* entry of the key as it is (same context, request, traverser and isPaused
\* flag), creates no context and pushes no task into the queue.
C21_UpdateKeepsEntry ==
    [][(HandlesNext /\ UpdateOfEntry(Head(messages))) =>
           /\ inProgressResponses' = inProgressResponses
           /\ contexts' = contexts
           /\ queryQueue' = queryQueue]_vars

\* the updates the update hooks ran on for k
UpdatesRun(k) == [i \in 1..Len(hist[k].updRun) |-> hist[k].updRun[i].update]

\* the update hooks returned an error that is not a pause on the last update
\* they ran on for k
UpdateFailed(k) ==
    /\ hist[k].updRun # <<>>
    /\ Last(hist[k].updRun).err \notin {Nil, ErrPaused}

\* C22: the worker that took the update signal of k gets all the updates pending
\* for k, in the order they came; the update hooks run on them one by one in
\* that order, each at most once, and the extensions of each run go to the
\* sender; when a run returns an error (other than a pause) the task ends at
\* once with that error as the outcome of the traversal, and no update is run
\* through the hooks for k afterwards.
C22_UpdatesRunInOrderUntilError ==
    /\ [](\A k \in Keys :
            \A i, j \in 1..Len(hist[k].updRun) :
                i < j => /\ hist[k].updRun[i].update < hist[k].updRun[j].update
                         /\ hist[k].updRun[i].err \in {Nil, ErrPaused})
    /\ [][\A w \in Workers : \A k \in {worker[w].key} :
            /\ (worker[w].pc = "awaitUpd" /\ worker'[w].pc = "procUpd") =>
                  /\ worker'[w].updates = signals[k].updates
                  /\ signals'[k].updates = <<>>
            /\ (worker[w].pc = "procUpd" /\ worker[w].updates # <<>>
                  /\ worker'[w] # worker[w]) =>
                  \E n \in ExtensionCounts : \E e \in {Nil, ErrPaused, errHook} :
                     /\ hist'[k].updRun =
                            Append(hist[k].updRun,
                                   [update |-> Head(worker[w].updates), err |-> e])
                     /\ e = Nil =>
                            /\ sent'[k] = sent[k] \o Extensions(n)
                            /\ worker'[w].pc = "procUpd"
                            /\ worker'[w].updates = Tail(worker[w].updates)
                     /\ e = errHook =>
                            /\ sent'[k] = sent[k] \o Extensions(n)
                                             \o <<FinishWithError(RequestFailedUnknown)>>
                            /\ worker'[w].pc = "finTask"
                            /\ worker'[w].err = e
                            /\ worker'[w].status = RequestFailedUnknown
                            /\ completedListeners'[k] =
                                   Append(completedListeners[k], RequestFailedUnknown)
      ]_vars
    /\ [][\A k \in Keys : UpdateFailed(k) => hist'[k].updRun = hist[k].updRun]_vars

\* C22 witness: two updates were pending when the worker asked for them; the
\* update hooks failed on the first and the task ended with that error, the
\* second update not run.
C22_Witness ==
    \E k \in Keys : \E w \in Workers :
        /\ worker[w].key = k
        /\ worker[w].pc = "finTask"
        /\ worker[w].err = errHook
        /\ Len(worker[w].updates) = 2
        /\ UpdatesRun(k) = <<Head(worker[w].updates)>>
        /\ UpdateFailed(k)

\* the links of the block records of k that were sent in full
SentInFull(k) ==
    LET full == SelectSeq(sent[k], LAMBDA c : c.call = "SendResponse" /\ c.size > 0)
    IN [i \in 1..Len(full) |-> full[i].link]

HookedLinks(k) == [i \in 1..Len(hist[k].blockHooks) |-> hist[k].blockHooks[i].link]

\* what a pause makes the transaction add after the extensions of the hooks
PauseCall(e) == IF e = ErrPaused THEN <<PauseRequest>> ELSE <<>>

\* C23: the block hooks ran once on every block record of size greater than 0,
\* in the order of the records, and on no record of size 0; the step that sends
\* a record of size greater than 0 puts the extensions of the hooks right after
\* it; when the hooks return pause it calls PauseRequest after them and the
\* task ends with ErrPaused, with no finish call and no notification; when they
\* return another error the traversal ends with that error; a record of size 0
\* is followed by no hook extension and leaves the error of the poll as it was.
C23_BlockHooksPerSentBlock ==
    /\ [](\A k \in Keys : HookedLinks(k) = SentInFull(k))
    /\ [][\A w \in Workers : \A k \in {worker[w].key} :
            (worker[w].pc = "send" /\ worker'[w] # worker[w]) =>
               \/ \E size \in BlockSizes \ {0} : \E n \in ExtensionCounts :
                  \E e \in {Nil, ErrPaused, errHook} :
                     LET out == IF e # Nil THEN e ELSE worker[w].err
                         calls == <<SendResponse(worker[w].link, size)>>
                                     \o Extensions(n) \o PauseCall(e)
                     IN /\ hist'[k].blockHooks =
                              Append(hist[k].blockHooks,
                                     [link |-> worker[w].link, err |-> e])
                        /\ sent'[k] = IF out = Nil THEN sent[k] \o calls
                                       ELSE sent[k] \o calls
                                                \o ExecuteQueryResult(out).calls
                        /\ out = Nil => worker'[w].pc = "run"
                        /\ out # Nil => worker'[w].pc = "finTask" /\ worker'[w].err = out
                        /\ e = ErrPaused =>
                              /\ Last(sent'[k]) = PauseRequest
                              /\ worker'[w].status = RequestPaused
                              /\ UNCHANGED <<completedListeners, cancelledListeners>>
                        /\ e = errHook =>
                              /\ Last(sent'[k]) = FinishWithError(RequestFailedUnknown)
                              /\ worker'[w].status = RequestFailedUnknown
               \/ /\ hist'[k].blockHooks = hist[k].blockHooks
                  /\ sent'[k] = sent[k] \o <<SendResponse(worker[w].link, 0)>>
                  /\ IF worker[w].err = Nil
                     THEN worker'[w].pc = "run"
                     ELSE worker'[w].pc = "finTask" /\ worker'[w].err = worker[w].err
      ]_vars

\* C23 witness: the first block went out suppressed with no hook run, the hooks
\* ran on the second and returned pause, and the task ended paused right after
\* the PauseRequest of that transaction.
C23_Witness ==
    \E k \in Keys : \E w \in Workers :
        /\ worker[w].key = k
        /\ worker[w].pc = "finTask"
        /\ worker[w].err = ErrPaused
        /\ Blocks(k) = <<SendResponse(1, 0), SendResponse(2, 1)>>
        /\ hist[k].blockHooks = <<[link |-> 2, err |-> ErrPaused]>>
        /\ Last(sent[k]) = PauseRequest
        /\ Notifications(k) = 0

\* the entry of k is over: it was put into the table and has left it, or the
\* serializer loop has exited
EntryOver(k) ==
    /\ hist[k].reqHooks > 0 \/ hist[k].cancelCalls > 0 \/ InTable(k)
    /\ ~InTable(k) \/ runExited

\* the serializer handles a cancel request for k
HandlesCancelOf(k) ==
    /\ HandlesNext
    /\ Head(messages).type = "processRequest"
    /\ Head(messages).key.p = k.p
    /\ \E i \in 1..Len(Head(messages).requests) :
          /\ Head(messages).requests[i].isCancel
          /\ Head(messages).requests[i].id = k.requestID

\* the cancel requests for k in a processRequests call
CancelsOf(k, m) ==
    Cardinality({i \in 1..Len(m.requests) :
                    m.requests[i].isCancel /\ m.requests[i].id = k.requestID})

\* the serializer handles the finishTask that takes the entry of k out of the table
HandlesLastFinishOf(k) ==
    /\ HandlesNext
    /\ Head(messages).type = "finishTask"
    /\ Head(messages).key = k
    /\ Head(messages).err # ErrPaused
    /\ InTable(k)
    /\ k \notin DOMAIN inProgressResponses'

\* C24 as stated: the serializer calls the cancelFn of an entry exactly once: never
\* twice, and once when the entry is over.
C24_CancelFnExactlyOnce ==
    \A k \in Keys :
        /\ hist[k].cancelCalls <= 1
        /\ EntryOver(k) => hist[k].cancelCalls = 1

\* C24 amended: the serializer calls the cancelFn of an entry only when it handles
\* a cancel request for its key (once for each cancel request of the call that
\* finds the entry in the table), when it handles the finishTask that takes the
\* entry out of the table, or in the cleanup on shutdown; it has called it at
\* least once, and the context of the entry is done, when the entry has left
\* the table or the serializer loop has exited; it may call it more than once (a
\* cancel request and then the finishTask of the cancelled task, a second
\* cancel request, or the cleanup after a cancel request), and a context once
\* done stays done.
C24_CancelFnOnTerminalOrShutdown ==
    /\ [](\A k \in Keys :
            /\ (InTable(k) /\ runExited) =>
                  /\ hist[k].cancelCalls >= 1
                  /\ contexts[inProgressResponses[k].ctx]
            /\ (InTable(k) /\ hist[k].cancelCalls = 0) =>
                  ~contexts[inProgressResponses[k].ctx])
    /\ [][\A k \in Keys :
            /\ hist'[k].cancelCalls # hist[k].cancelCalls =>
                  \/ /\ HandlesCancelOf(k)
                     /\ hist'[k].cancelCalls - hist[k].cancelCalls
                            \in 1..CancelsOf(k, Head(messages))
                     /\ k \in DOMAIN inProgressResponses'
                     /\ contexts'[inProgressResponses'[k].ctx]
                  \/ /\ HandlesLastFinishOf(k) \/ (~runExited /\ runExited')
                     /\ hist'[k].cancelCalls = hist[k].cancelCalls + 1
                     /\ InTable(k)
                     /\ contexts'[inProgressResponses[k].ctx]
            /\ (InTable(k) /\ k \notin DOMAIN inProgressResponses') =>
                  /\ hist'[k].cancelCalls >= 1
                  /\ contexts'[inProgressResponses[k].ctx]
      ]_vars
    /\ [][\A c \in DOMAIN contexts : contexts[c] => contexts'[c]]_vars

\* C24 witness: the cancelFn of an entry was called twice, by a cancel request
\* while its task was running and by the finishTask of the cancelled task, and
\* the serializer loop has exited after the entry had left the table.
C24_Witness ==
    \E k \in Keys :
        /\ hist[k].cancelCalls = 2
        /\ hist[k].cancelAt \in {"advance", "inflight"}
        /\ ~InTable(k)
        /\ cancelledListeners[k] = 1
        /\ runExited

\* the worker is inside executeTask
Executing(w) ==
    \/ worker[w].pc = "execute" /\ ~worker[w].empty
    \/ worker[w].pc \in {"setData", "run", "poll", "updReq", "awaitUpd", "procUpd",
                          "send"}

\* the worker is inside RunTraversal
Traversing(w) ==
    worker[w].pc \in {"run", "poll", "updReq", "awaitUpd", "procUpd", "send"}

\* C25: with every key sent as a new request at most once, no two workers are
\* inside executeTask for the same key at the same time and no two workers run
\* a traversal on the same traverser at the same time; while a task for a key
\* is queued (as it is after an unpause) no worker is inside executeTask for
\* that key.
C25_OneWorkerPerKey ==
    /\ \A w1, w2 \in Workers :
          (w1 # w2 /\ Executing(w1) /\ Executing(w2)) =>
              worker[w1].key # worker[w2].key
    /\ \A w1, w2 \in Workers :
          (w1 # w2 /\ Traversing(w1) /\ Traversing(w2)) =>
              worker[w1].traverser # worker[w2].traverser
    /\ \A k \in Keys :
          Pending(k) => \A w \in Workers : ~(Executing(w) /\ worker[w].key = k)

\* two workers run a traversal on one traverser
SharedTraverser ==
    \E w1, w2 \in Workers :
        w1 # w2 /\ Traversing(w1) /\ Traversing(w2)
                /\ worker[w1].traverser = worker[w2].traverser

\* the worker is at a send on the messages channel or waits for a reply of the
\* serializer
Blocked(w) ==
    worker[w].pc \in {"reqData", "awaitData", "setData", "updReq", "awaitUpd", "finTask"}

\* the worker the message asks a reply for is waiting for it
ReplyAwaited(m) ==
    /\ m.type = "responseData" =>
          worker[m.w].pc = "awaitData" /\ worker[m.w].key = m.key
    /\ m.type = "responseUpdate" =>
          worker[m.w].pc = "awaitUpd" /\ worker[m.w].key = m.key

\* C26: while rm.ctx is live, every message that asks the serializer for a reply
\* comes from a worker that is waiting for that reply, so the serializer never
\* blocks on it; a step that puts a message on the channel changes nothing the
\* serializer owns (the serializer does not send on it); and every worker that
\* is at a send on the channel or waits for task data or for updates gets past
\* it.
C26_WorkersGetUnblocked ==
    /\ [](\A i \in 1..Len(messages) : ReplyAwaited(messages[i]))
    /\ [][Len(messages') > Len(messages) =>
             /\ SubSeq(messages', 1, Len(messages)) = messages
             /\ Len(messages') = Len(messages) + 1
             /\ UNCHANGED serializerVars]_vars
    /\ \A w \in Workers : Blocked(w) ~> ~Blocked(w)

\* C26 witness: the channel is full, one worker is at its send of
\* finishTaskRequest and the other waits for the task data it asked for.
C26_Witness ==
    \E w1, w2 \in Workers :
        /\ ~HasRoom
        /\ worker[w1].pc = "finTask"
        /\ worker[w2].pc = "awaitData"
        /\ \E i \in 1..Len(messages) :
              messages[i].type = "responseData" /\ messages[i].w = w2

\* C27: a call of the cancelled listener for k is made by the worker whose task
\* for k ends, in that step, with an error that is a context cancellation, and
\* comes with no call of the completed listener; a task that ends with
\* errCancelledByCommand has notified the completed listener with
\* RequestCancelled and not the cancelled listener.
C27_CancelledListenerOnContextErr ==
    /\ [][\A k \in Keys :
            cancelledListeners'[k] # cancelledListeners[k] =>
               /\ cancelledListeners'[k] = cancelledListeners[k] + 1
               /\ completedListeners'[k] = completedListeners[k]
               /\ \E w \in Workers :
                     /\ worker[w].key = k
                     /\ worker[w].pc # "finTask"
                     /\ worker'[w].pc = "finTask"
                     /\ worker'[w].err # Nil
                     /\ Contains(ErrorText(worker'[w].err),
                                 ErrorText(ContextCancelError))]_vars
    /\ [](\A k \in Keys : \A w \in Workers :
            (worker[w].key = k /\ worker[w].pc = "finTask"
               /\ worker[w].err = errCancelledByCommand) =>
                /\ completedListeners[k] = <<RequestCancelled>>
                /\ cancelledListeners[k] = 0)

\* C27 witness: a self-cancel stop signal ended the traversal after its first
\* block: the completed listener got RequestCancelled, the cancelled listener
\* nothing.
C27_Witness ==
    \E k \in Keys : \E w \in Workers :
        /\ worker[w].key = k
        /\ worker[w].pc = "finTask"
        /\ worker[w].err = errCancelledByCommand
        /\ hist[k].pollEnded
        /\ Len(Blocks(k)) = 1
        /\ completedListeners[k] = <<RequestCancelled>>
        /\ cancelledListeners[k] = 0

====
